---- MODULE Spec2Model ----
(***************************************************************************)
(* The forward HTTP proxy of examples/proxyserver/manage.py: one inbound   *)
(* request handled by ProxyServerWsgiHandler._call, the response object it *)
(* creates (ProxyResponse or ProxyTunnel), the callbacks the upstream HTTP *)
(* client fires on it (pre_request, data_processed, error) and the         *)
(* downstream consumer iterating over it.                                  *)
(***************************************************************************)
EXTENDS Integers, Sequences, FiniteSets, TLC

\* ------------------------------------------------------------------ bounds
\* data_processed events the upstream client fires for one request
MaxEvents == 3
\* data_received events on the two connections of one tunnel
MaxTunnelData == 2
\* writes of one tunnel that raise
MaxWriteFailures == 1

\* ------------------------------------------------------------ basic values
\* Python's None / a present value, for fields that hold a sequence or string
None == <<>>
Some(x) == <<x>>
IsNone(o) == o = <<>>
Val(o) == o[1]

UPPER == "ABCDEFGHIJKLMNOPQRSTUVWXYZ"
LOWER == "abcdefghijklmnopqrstuvwxyz"

CharAt(s, i) == SubSeq(s, i, i)

UpperLetters == { CharAt(UPPER, i) : i \in 1..Len(UPPER) }
LowerLetters == { CharAt(LOWER, i) : i \in 1..Len(LOWER) }
ToLower == [c \in UpperLetters |->
              CharAt(LOWER, CHOOSE i \in 1..Len(UPPER) : CharAt(UPPER, i) = c)]
ToUpper == [c \in LowerLetters |->
              CharAt(UPPER, CHOOSE i \in 1..Len(LOWER) : CharAt(LOWER, i) = c)]

\* str.lower() on one character
LowerChar(c) == IF c \in UpperLetters THEN ToLower[c] ELSE c

\* str.upper() on one character
UpperChar(c) == IF c \in LowerLetters THEN ToUpper[c] ELSE c

RECURSIVE Lower(_)
Lower(s) ==
    IF Len(s) = 0 THEN ""
    ELSE LowerChar(CharAt(s, 1)) \o Lower(SubSeq(s, 2, Len(s)))

RECURSIVE Upper(_)
Upper(s) ==
    IF Len(s) = 0 THEN ""
    ELSE UpperChar(CharAt(s, 1)) \o Upper(SubSeq(s, 2, Len(s)))

\* str.replace(old, new) for single characters
RECURSIVE Replace(_, _, _)
Replace(s, old, new) ==
    IF Len(s) = 0 THEN ""
    ELSE (IF CharAt(s, 1) = old THEN new ELSE CharAt(s, 1))
         \o Replace(SubSeq(s, 2, Len(s)), old, new)

\* str.startswith(prefix)
StartsWith(s, prefix) ==
    /\ Len(s) >= Len(prefix)
    /\ SubSeq(s, 1, Len(prefix)) = prefix

\* ----------------------------------------------------------------- environ
\* The WSGI environ is an ordered dictionary: a sequence of <<key, value>>.
EnvHas(env, k) == \E i \in 1..Len(env) : env[i][1] = k
EnvGet(env, k) ==
    IF EnvHas(env, k)
    THEN Some(env[CHOOSE i \in 1..Len(env) : env[i][1] = k][2])
    ELSE None

\* ----------------------------------------------------------------- Headers
\* pulsar.utils.httpurl.Headers: an ordered, case-insensitive multi-map,
\* held as a sequence of <<name, value>>.
HeadersHas(h, name) == \E i \in 1..Len(h) : Lower(h[i][1]) = Lower(name)

RECURSIVE HeadersRemove(_, _)
HeadersRemove(h, name) ==
    IF Len(h) = 0 THEN <<>>
    ELSE IF Lower(Head(h)[1]) = Lower(name)
         THEN HeadersRemove(Tail(h), name)
         ELSE <<Head(h)>> \o HeadersRemove(Tail(h), name)

\* headers[name] = value : replaces whatever the name held
HeadersSet(h, name, value) ==
    IF HeadersHas(h, name)
    THEN LET i == CHOOSE j \in 1..Len(h) : Lower(h[j][1]) = Lower(name)
         IN  SubSeq(h, 1, i - 1) \o <<(<<h[i][1], value>>)>>
             \o HeadersRemove(SubSeq(h, i + 1, Len(h)), name)
    ELSE Append(h, <<name, value>>)

\* headers.add_header(name, value) : keeps what the name held
HeadersAdd(h, name, value) == Append(h, <<name, value>>)

HeaderNames(h) == { h[i][1] : i \in 1..Len(h) }

\* pulsar.Queue: put(item) appends, get() takes the oldest item
QueuePut(q, item) == Append(q, item)
QueueGet(q) == Head(q)
QueueAfterGet(q) == Tail(q)

RECURSIVE QueuePutAll(_, _)
QueuePutAll(q, items) ==
    IF Len(items) = 0 THEN q
    ELSE QueuePutAll(QueuePut(q, Head(items)), Tail(items))

\* wsgi.HOP_HEADERS
HOP_HEADERS ==
    { "connection", "keep-alive", "proxy-authenticate", "proxy-authorization",
      "te", "trailers", "transfer-encoding", "upgrade" }

ENVIRON_HEADERS == << "content-type", "content-length" >>
USER_AGENT == "Pulsar-proxy-server"


\* ------------------------------------------------------------- middlewares
\* the entry added carries the protocol of the request, not its address
x_forwarded_for_WrongKey(env, h) ==
    HeadersAdd(h, "x-forwarded-for", Val(EnvGet(env, "SERVER_PROTOCOL")))

\* x_forwarded_for(environ, headers)
x_forwarded_for(env, h) ==
    HeadersAdd(h, "x-forwarded-for", Val(EnvGet(env, "REMOTE_ADDR")))

\* user_agent(agent).__call__(environ, headers)
user_agent(env, h) == HeadersSet(h, "user-agent", USER_AGENT)

\* one middleware callable of headers_middleware, by name
CallMiddleware(m, env, h) ==
    IF m = "x_forwarded_for" THEN x_forwarded_for(env, h)
    ELSE IF m = "user_agent" THEN user_agent(env, h)
    ELSE h

\* for k in environ: if k.startswith('HTTP_'): headers[k[5:].replace('_','-')] = environ[k]
RECURSIVE CopyHttpKeys(_, _)
CopyHttpKeys(env, h) ==
    IF Len(env) = 0 THEN h
    ELSE LET k == Head(env)[1]
             v == Head(env)[2]
         IN  CopyHttpKeys(Tail(env),
                IF StartsWith(k, "HTTP_")
                THEN HeadersSet(h, Replace(SubSeq(k, 6, Len(k)), "_", "-"), v)
                ELSE h)

\* for head in ENVIRON_HEADERS: v = environ.get(k); if v: headers[head] = v
RECURSIVE CopyEnvironHeaders(_, _, _)
CopyEnvironHeaders(heads, env, h) ==
    IF Len(heads) = 0 THEN h
    ELSE LET head == Head(heads)
             k == Upper(Replace(head, "-", "_"))
             v == EnvGet(env, k)
         IN  CopyEnvironHeaders(Tail(heads), env,
                IF ~IsNone(v) /\ Val(v) # ""
                THEN HeadersSet(h, head, Val(v))
                ELSE h)

\* the middleware registered last is called first
RECURSIVE ApplyMiddleware_Reversed(_, _, _)
ApplyMiddleware_Reversed(ms, env, h) ==
    IF Len(ms) = 0 THEN h
    ELSE CallMiddleware(Head(ms), env, ApplyMiddleware_Reversed(Tail(ms), env, h))

\* for middleware in self.headers_middleware: middleware(environ, headers)
RECURSIVE ApplyMiddleware(_, _, _)
ApplyMiddleware(ms, env, h) ==
    IF Len(ms) = 0 THEN h
    ELSE ApplyMiddleware(Tail(ms), env, CallMiddleware(Head(ms), env, h))

\* ProxyServerWsgiHandler.request_headers
request_headers(ms, env) ==
    ApplyMiddleware(ms, env,
        CopyEnvironHeaders(ENVIRON_HEADERS, env, CopyHttpKeys(env, <<>>)))

RECURSIVE remove_hop_headers_CaseSensitive(_)
remove_hop_headers_CaseSensitive(headers) ==
    IF Len(headers) = 0 THEN <<>>
    ELSE IF Head(headers)[1] \notin HOP_HEADERS
         THEN <<Head(headers)>> \o remove_hop_headers_CaseSensitive(Tail(headers))
         ELSE remove_hop_headers_CaseSensitive(Tail(headers))

\* a header is dropped when its name begins with the name of a hop header
RECURSIVE remove_hop_headers_ByPrefix(_)
remove_hop_headers_ByPrefix(headers) ==
    IF Len(headers) = 0 THEN <<>>
    ELSE IF \E hop \in HOP_HEADERS : StartsWith(Lower(Head(headers)[1]), hop)
         THEN remove_hop_headers_ByPrefix(Tail(headers))
         ELSE <<Head(headers)>> \o remove_hop_headers_ByPrefix(Tail(headers))

\* ProxyResponse.remove_hop_headers
RECURSIVE remove_hop_headers(_)
remove_hop_headers(headers) ==
    IF Len(headers) = 0 THEN <<>>
    ELSE IF Lower(Head(headers)[1]) \notin HOP_HEADERS
         THEN <<Head(headers)>> \o remove_hop_headers(Tail(headers))
         ELSE remove_hop_headers(Tail(headers))

\* ------------------------------------------------- inputs of one request
\* request lines: method and raw target (missing, origin form, absolute URI,
\* authority)
RequestLines ==
    { <<"GET", "">>, <<"GET", "/a">>, <<"GET", "http://u/">>,
      <<"CONNECT", "">>, <<"CONNECT", "/">>, <<"CONNECT", "u:443">> }

\* what the inbound request says about Expect
ExpectChoices ==
    { <<>>,
      << <<"HTTP_EXPECT", "100-continue">> >>,
      << <<"HTTP_EXPECT", "200-ok">> >> }

\* further inbound headers, as the WSGI server lays them out in the environ
TypicalHeaders ==
    << <<"CONTENT_TYPE", "text/plain">>, <<"HTTP_PROXY_AUTHORIZATION", "k">>,
       <<"HTTP_X_FORWARDED_FOR", "9.9.9.9">> >>
InboundHeaderChoices ==
    { <<>>,
      << <<"HTTP_X_A", "1">> >>,
      << <<"HTTP_CONNECTION", "close">>, <<"CONTENT_LENGTH", "4">>,
         <<"HTTP_USER_AGENT", "curl">> >>,
      TypicalHeaders }

\* wsgi.input: absent, or a stream holding the inbound body
InputChoices == { <<>>, << <<"wsgi.input", "body">> >> }

EnvironsWith(headerChoices) ==
    { << <<"REQUEST_METHOD", r[1]>>, <<"RAW_URI", r[2]>>,
         <<"SERVER_PROTOCOL", "HTTP/1.1">>, <<"REMOTE_ADDR", "10.0.0.1">> >>
      \o e \o hs \o inp :
        r \in RequestLines, e \in ExpectChoices,
        hs \in headerChoices, inp \in InputChoices }

\* the requests whose whole life is followed, and all the requests the
\* handler is tried on
Environs == EnvironsWith({ TypicalHeaders })
AllEnvirons == EnvironsWith(InboundHeaderChoices)

\* configured headers_middleware lists; server() defaults to [x_forwarded_for]
DefaultMiddleware == <<"x_forwarded_for">>
MiddlewareChoices ==
    { <<>>, DefaultMiddleware, <<"user_agent">>, <<"user_agent", "x_forwarded_for">> }

\* upstream statuses, body chunks and header lists the upstream may send
Statuses == { "100 Continue", "200 OK" }
Chunks == { "", "a" }
ResponseHeaderChoices ==
    { << <<"Content-Length", "2">>, <<"Connection", "close">>, <<"ETag", "x">> >>,
      << <<"Server", "s">>, <<"TE", "t">>, <<"transfer-encoding", "chunked">>,
         <<"Tea", "t">> >> }


\* ------------------------------------------------------------------- state
VARIABLES
    environ,        \* the WSGI environ of the inbound request
    middleware,     \* ProxyServerWsgiHandler.headers_middleware
    pc,             \* position of the _call coroutine
    input,          \* what is left to read on environ['wsgi.input']
    request,        \* the request handed to http_client._request, or None
    kind,           \* class of the response object: none, ProxyResponse, ProxyTunnel
    _started,       \* ProxyResponse._started
    _headers,       \* ProxyResponse._headers
    _done,          \* ProxyResponse._done
    queue,          \* ProxyResponse.queue
    client,         \* the upstream request: idle, connecting, connected, finished, failed
    parser,         \* the upstream response parser: status, headers / message complete
    response_headers, \* response.headers of the upstream response
    buffer,         \* body bytes the parser holds until recv_body() takes them
    suspended,      \* data_processed calls waiting on stream.read() (line 190)
    nevents,        \* data_processed events fired so far
    consumer,       \* the downstream iteration: idle, running, stopped
    yielded,        \* history: the chunks the iteration has yielded, in order
    tunnel,         \* protocol consumer of each connection after upgrade
    trace           \* history: the effects of the handlers, in program order

vars == << environ, middleware, pc, input, request, kind, _started, _headers,
           _done, queue, client, parser, response_headers, buffer, suspended,
           nevents, consumer, yielded, tunnel, trace >>

\* ----------------------------------------------------------------- effects
\* What a handler does, statement by statement; Perform applies a list of
\* effects to the fields of the response object and records it in the trace.
EvStartResponse(status, headers) ==
    [op |-> "start_response", status |-> status, headers |-> headers]
EvSetStarted == [op |-> "set_started"]
EvSetHeaders(h) == [op |-> "set_headers", headers |-> h]
EvSetDone == [op |-> "set_done"]
EvPut(chunk) == [op |-> "put", chunk |-> chunk]
EvRecvBody(chunk) == [op |-> "recv_body", chunk |-> chunk]
EvRead(stream) == [op |-> "read", stream |-> stream]
EvWrite(body) == [op |-> "write_upstream", body |-> body]
EvOp(name) == [op |-> name]

OfOp(es, name) == SelectSeq(es, LAMBDA e : e.op = name)
HasOp(es, name) == \E i \in 1..Len(es) : es[i].op = name
ChunksOf(es, name) == [i \in 1..Len(OfOp(es, name)) |-> OfOp(es, name)[i].chunk]

Perform(es) ==
    /\ trace' = trace \o es
    /\ _started' = (_started \/ HasOp(es, "set_started"))
    /\ _done' = (_done \/ HasOp(es, "set_done"))
    /\ _headers' = IF HasOp(es, "set_headers")
                   THEN Some(OfOp(es, "set_headers")[Len(OfOp(es, "set_headers"))].headers)
                   ELSE _headers
    /\ queue' = QueuePutAll(queue, ChunksOf(es, "put"))

\* ------------------------------------------------------------------- Init
NoParser == [status |-> "", headers_complete |-> FALSE, message_complete |-> FALSE]
Sides == { "dostream", "upstream" }
Other(side) == IF side = "dostream" THEN "upstream" ELSE "dostream"

\* the two connections of a request: the protocol consumer of each, whether
\* each is closed, which were lost (closed by the peer or by a failure), what
\* each received, every write made on the transport of each (and whether it
\* was closed by then), and the callbacks scheduled with call_soon
NoTunnel ==
    [dostream |-> "http", upstream |-> "http", request_sent |-> TRUE,
     closed |-> [s \in Sides |-> FALSE],
     lost |-> {},
     received |-> [s \in Sides |-> <<>>],
     writes |-> [s \in Sides |-> <<>>],
     loop |-> <<>>]

\* one write on the transport of a connection: who made it, the bytes, whether
\* the connection was closed by then, whether the write raised, and whether
\* the exception was let through to the caller
Write(by, data, wasClosed) ==
    [by |-> by, data |-> data, closed |-> wasClosed, failed |-> FALSE,
     raised |-> FALSE]

InitWith(environs, middlewares) ==
    /\ environ \in environs
    /\ middleware \in middlewares
    /\ pc = "start"
    /\ input = (IF EnvHas(environ, "wsgi.input")
                THEN Val(EnvGet(environ, "wsgi.input")) ELSE "")
    /\ request = None
    /\ kind = "none"
    /\ _started = FALSE
    /\ _headers = None
    /\ _done = FALSE
    /\ queue = <<>>
    /\ client = "idle"
    /\ parser = NoParser
    /\ response_headers = <<>>
    /\ buffer = ""
    /\ suspended = 0
    /\ nevents = 0
    /\ consumer = "idle"
    /\ yielded = <<>>
    /\ tunnel = NoTunnel
    /\ trace = <<>>

\* one request to the server as server() configures it
Init == InitWith(Environs, { DefaultMiddleware })

\* any request, to a handler with any of the middleware lists
HandlerInit == InitWith(AllEnvirons, MiddlewareChoices)

\* ------------------------------------------- ProxyServerWsgiHandler._call
RAW_URI == Val(EnvGet(environ, "RAW_URI"))
REQUEST_METHOD == Val(EnvGet(environ, "REQUEST_METHOD"))

NoProperUri_EmptyOnly(uri) == uri = ""

\* line 97: not uri or uri.startswith('/')
NoProperUri(uri) == uri = "" \/ StartsWith(uri, "/")

ReadsBodyFirst_AnyExpect(env) == ~EnvHas(env, "HTTP_EXPECT")

\* line 99: environ.get('HTTP_EXPECT') != '100-continue'
ReadsBodyFirst(env) == EnvGet(env, "HTTP_EXPECT") # Some("100-continue")

\* environ.get('wsgi.input') or io.BytesIO()
StreamOf(env) == IF EnvHas(env, "wsgi.input") THEN "wsgi.input" ELSE "BytesIO"

\* lines 104-116: build the headers, create the response, start the request
Dispatch(data, before) ==
    LET hs == request_headers(middleware, environ)
        k == IF REQUEST_METHOD = "CONNECT" THEN "ProxyTunnel" ELSE "ProxyResponse"
    IN  /\ request' = Some([method |-> REQUEST_METHOD, url |-> RAW_URI,
                            data |-> data, headers |-> hs,
                            version |-> Val(EnvGet(environ, "SERVER_PROTOCOL"))])
        /\ kind' = k
        /\ client' = "connecting"
        /\ pc' = "returned"
        /\ trace' = trace \o before \o
                    << EvOp("request_headers"), EvOp("response"), EvOp("start_request") >>

\* lines 95-103, up to the first suspension (yield stream.read())
Call ==
    /\ pc = "start"
    /\ IF NoProperUri(RAW_URI)
       THEN /\ pc' = "raised"
            /\ trace' = Append(trace, [op |-> "raise", status |-> 404])
            /\ UNCHANGED << request, kind, client >>
       ELSE IF ReadsBodyFirst(environ)
       THEN /\ pc' = "reading"
            /\ trace' = Append(trace, EvRead(StreamOf(environ)))
            /\ UNCHANGED << request, kind, client >>
       ELSE Dispatch(None, <<>>)
    /\ UNCHANGED << environ, middleware, input, _started, _headers, _done, queue,
                    parser, response_headers, buffer, suspended, nevents, consumer,
                    yielded, tunnel >>

\* line 101 resumes with the body read, then lines 104-116
CallResume ==
    /\ pc = "reading"
    /\ Dispatch(Some(input), << EvOp("read_done") >>)
    /\ input' = ""
    /\ UNCHANGED << environ, middleware, _started, _headers, _done, queue,
                    parser, response_headers, buffer, suspended, nevents, consumer,
                    yielded, tunnel >>


\* ------------------------------------------------ upstream client (events)
\* The parser states a data_processed event may find after state p: the parser
\* has advanced within the current message, or, after an interim 100 Continue,
\* has started on the final response.
Fresh(s) ==
    { [status |-> s, headers_complete |-> h, message_complete |-> m] :
        h \in BOOLEAN, m \in { FALSE } } \cup
    { [status |-> s, headers_complete |-> TRUE, message_complete |-> TRUE] }

Progress(p) ==
    { q \in Fresh(p.status) :
        /\ p.headers_complete => q.headers_complete
        /\ p.message_complete => q.message_complete }

NextParser(p) ==
    IF p.status = "" THEN UNION { Fresh(s) : s \in Statuses }
    ELSE Progress(p) \cup
         (IF p.status = "100 Continue"
          THEN UNION { Fresh(s) : s \in Statuses \ { "100 Continue" } }
          ELSE {})

\* body bytes an event may add to the parser's buffer
NewData(p, q) ==
    IF q.headers_complete /\ q.status # "100 Continue"
       /\ ~(p.status = q.status /\ p.message_complete)
    THEN Chunks ELSE { "" }

\* ------------------------------------------------------------ ProxyResponse
\* lines 158-161
pre_request_effects == << EvSetStarted, EvOp("bind_event") >>

ErrorRenders_Always(started) == TRUE

\* line 164: if not self._started
ErrorRenders(started) == ~started

\* wsgi.WsgiResponse(504, ...).status
GATEWAY_TIMEOUT == "504 Gateway Timeout"

\* lines 168-179: the response rendered for the negotiated content type
ErrorContent(content_type, uri) ==
    LET msg == "Could not find " \o uri
    IN  IF content_type = "text/html" THEN "<h1>" \o msg \o "</h1>"
        ELSE IF content_type = "text/plain" THEN msg
        ELSE ""

ErrorHeaders(content_type) ==
    IF content_type \in { "text/html", "text/plain" }
    THEN << <<"Content-Type", "text/html">> >>
    ELSE <<>>

\* the 504 is rendered and enqueued, the response is not marked done
error_effects_NoDone(started, content_type, uri) ==
    IF ~started
    THEN << EvStartResponse("504 Gateway Timeout", <<>>),
            EvPut(IF content_type = "text/html"
                  THEN "<h1>Could not find " \o uri \o "</h1>"
                  ELSE IF content_type = "text/plain"
                  THEN "Could not find " \o uri ELSE "") >>
    ELSE <<>>

\* ProxyResponse.error, lines 163-183
error_effects(started, content_type, uri) ==
    IF ErrorRenders(started)
    THEN << EvStartResponse(GATEWAY_TIMEOUT, ErrorHeaders(content_type)),
            EvSetDone,
            EvPut(ErrorContent(content_type, uri)) >>
    ELSE <<>>

HeadersNotSent_Always(headers) == TRUE

\* line 193: if self._headers is None
HeadersNotSent(headers) == IsNone(headers)

\* the chunk is enqueued whether or not the headers are complete
data_processed_tail_PutFirst(status, p, upstream_headers, headers, body) ==
    << EvRecvBody(body), EvPut(body) >> \o
    (IF p.headers_complete
     THEN (IF IsNone(headers)
           THEN << EvSetHeaders(remove_hop_headers(upstream_headers)),
                   EvStartResponse(status, remove_hop_headers(upstream_headers)) >>
           ELSE <<>>)
          \o (IF p.message_complete THEN << EvSetDone >> ELSE <<>>)
     ELSE <<>>)

\* the last chunk is not enqueued once the message is complete
data_processed_tail_DropLast(status, p, upstream_headers, headers, body) ==
    IF p.headers_complete
    THEN (IF IsNone(headers)
          THEN << EvSetHeaders(remove_hop_headers(upstream_headers)),
                  EvStartResponse(status, remove_hop_headers(upstream_headers)) >>
          ELSE <<>>)
         \o << EvRecvBody(body) >>
         \o (IF p.message_complete THEN << EvSetDone >> ELSE << EvPut(body) >>)
    ELSE <<>>

\* ProxyResponse.data_processed, lines 192-201; body is what recv_body() returns
data_processed_tail(status, p, upstream_headers, headers, body) ==
    IF p.headers_complete
    THEN (IF HeadersNotSent(headers)
          THEN << EvSetHeaders(remove_hop_headers(upstream_headers)),
                  EvStartResponse(status, remove_hop_headers(upstream_headers)) >>
          ELSE <<>>)
         \o << EvRecvBody(body) >>
         \o (IF p.message_complete THEN << EvSetDone >> ELSE <<>>)
         \o << EvPut(body) >>
    ELSE <<>>

\* the 200 is given to start_response before the connections are upgraded
tunnel_pre_request_effects_RespondFirst ==
    << EvSetStarted, EvOp("suppress_request"),
       EvStartResponse("200 Connection established", <<>>),
       EvOp("upgrade_dostream"), EvOp("upgrade_upstream"), EvOp("finished"),
       EvSetDone, EvPut("") >>

\* ProxyTunnel.pre_request, lines 211-236
tunnel_pre_request_effects ==
    << EvSetStarted, EvOp("suppress_request"), EvOp("upgrade_dostream"),
       EvOp("upgrade_upstream"), EvOp("finished"),
       EvStartResponse("200 Connection established", <<>>),
       EvSetDone, EvPut("") >>

\* the upstream client calls pre_request once the connection is established
PreRequest ==
    /\ client = "connecting"
    /\ kind = "ProxyResponse"
    /\ Perform(pre_request_effects)
    /\ client' = "connected"
    /\ UNCHANGED << environ, middleware, pc, input, request, kind, parser,
                    response_headers, buffer, suspended, nevents, consumer, yielded,
                    tunnel >>

TunnelPreRequest ==
    /\ client = "connecting"
    /\ kind = "ProxyTunnel"
    /\ Perform(tunnel_pre_request_effects)
    /\ tunnel' = [tunnel EXCEPT !.dostream = "StreamTunnel(upstream)",
                                !.upstream = "StreamTunnel(dostream)",
                                !.request_sent = FALSE]
    /\ client' = "finished"
    /\ UNCHANGED << environ, middleware, pc, input, request, kind, parser,
                    response_headers, buffer, suspended, nevents, consumer, yielded >>

\* the errback of the upstream request: it fires once, and ends the request
Error ==
    /\ client \in { "connecting", "connected", "finished" }
    /\ \E content_type \in (IF ErrorRenders(_started)
                            THEN { "text/html", "text/plain", "none" }
                            ELSE { "none" }) :
         Perform(error_effects(_started, content_type, RAW_URI))
    /\ client' = "failed"
    /\ UNCHANGED << environ, middleware, pc, input, request, kind, parser,
                    response_headers, buffer, suspended, nevents, consumer, yielded,
                    tunnel >>

\* a data_processed event, lines 185-201, up to the suspension of line 190
DataProcessed ==
    /\ client = "connected"
    /\ nevents < MaxEvents
    /\ nevents' = nevents + 1
    /\ \E q \in NextParser(parser), hs \in ResponseHeaderChoices :
        \E data \in NewData(parser, q) :
         LET uh == IF ~q.headers_complete THEN <<>>
                   ELSE IF parser.headers_complete /\ parser.status = q.status
                        THEN response_headers ELSE hs
             body == buffer \o data
         IN  /\ parser' = q
             /\ response_headers' = uh
             /\ IF q.status = "100 Continue"
                THEN /\ Perform(<< EvRead(StreamOf(environ)) >>)
                     /\ suspended' = suspended + 1
                     /\ buffer' = body
                ELSE /\ Perform(data_processed_tail(q.status, q, uh, _headers, body))
                     /\ suspended' = suspended
                     /\ buffer' = IF q.headers_complete THEN "" ELSE body
    /\ UNCHANGED << environ, middleware, pc, input, request, kind, client,
                    consumer, yielded, tunnel >>

\* line 190 resumes with the inbound body, then lines 191-201
DataProcessedResume ==
    /\ suspended > 0
    /\ suspended' = suspended - 1
    /\ Perform(<< EvOp("read_done"), EvWrite(input) >> \o
               data_processed_tail("100 Continue", parser, response_headers,
                                   _headers, buffer))
    /\ input' = ""
    /\ buffer' = IF parser.headers_complete THEN "" ELSE buffer
    /\ UNCHANGED << environ, middleware, pc, request, kind, client, parser,
                    response_headers, nevents, consumer, yielded, tunnel >>

\* what the WSGI server writes downstream for a yielded chunk: the status
\* line and headers given to start_response before the first chunk, then the
\* chunk
ResponseWrites(chunk) ==
    LET started == SelectSeq(trace, LAMBDA e : e.op = "start_response")
        wasClosed == tunnel.closed["dostream"]
    IN  (IF Len(yielded) = 0 /\ Len(started) > 0
         THEN << Write("response", started[Len(started)].status, wasClosed) >>
         ELSE <<>>)
        \o << Write("chunk", chunk, wasClosed) >>

WaitsForChunk_Never(done) == FALSE

\* line 154: queue.get(wait=not self._done)
WaitsForChunk(done) == ~done

\* ProxyResponse.__iter__, lines 151-156: one turn of the loop; get() on an
\* empty queue raises Empty unless it was told to wait
Iter ==
    /\ pc = "returned"
    /\ consumer # "stopped"
    /\ IF Len(queue) > 0
       THEN /\ yielded' = Append(yielded, QueueGet(queue))
            /\ queue' = QueueAfterGet(queue)
            /\ consumer' = "running"
            /\ tunnel' = [tunnel EXCEPT !.writes["dostream"] =
                                        @ \o ResponseWrites(QueueGet(queue))]
       ELSE /\ ~WaitsForChunk(_done)
            /\ yielded' = yielded
            /\ queue' = queue
            /\ consumer' = "stopped"
            /\ tunnel' = tunnel
    /\ UNCHANGED << environ, middleware, pc, input, request, kind, _started,
                    _headers, _done, client, parser, response_headers, buffer,
                    suspended, nevents, trace >>

Next ==
    \/ Call
    \/ CallResume
    \/ PreRequest
    \/ TunnelPreRequest
    \/ Error
    \/ DataProcessed
    \/ DataProcessedResume
    \/ Iter

Spec == Init /\ [][Next]_vars

\* the handler alone, on every request and configuration
HandlerNext ==
    \/ Call
    \/ CallResume

HandlerSpec == HandlerInit /\ [][HandlerNext]_vars

\* ------------------------------------------------------------- StreamTunnel
\* bytes that travel through a tunnel
TunnelBytes == { "x", "y" }

\* lines 229-230: each connection is upgraded to a StreamTunnel whose tunnel
\* is the other connection
Established ==
    /\ tunnel.dostream = "StreamTunnel(upstream)"
    /\ tunnel.upstream = "StreamTunnel(dostream)"

\* every exception of the write is passed over
Reraises_Never(failed, tunnelClosed) == FALSE

\* lines 264-266: except Exception: if not self.tunnel.closed: raise
Reraises(failed, tunnelClosed) == failed /\ ~tunnelClosed

\* the data is written back on the connection it arrived on
data_received_Echo(t, side, data, fails) ==
    [t EXCEPT !.received[side] = Append(@, data),
              !.writes[side] =
                  Append(@, [Write("tunnel", data, t.closed[side])
                             EXCEPT !.failed = fails,
                                    !.raised = Reraises(fails, t.closed[side])])]

\* StreamTunnel.data_received, lines 261-266, of the consumer of side: the
\* write on the transport of the other connection is always made (line 263);
\* fails tells whether it raises
data_received(t, side, data, fails) ==
    [t EXCEPT !.received[side] = Append(@, data),
              !.writes[Other(side)] =
                  Append(@, [Write("tunnel", data, t.closed[Other(side)])
                             EXCEPT !.failed = fails,
                                    !.raised = Reraises(fails, t.closed[Other(side)])])]

\* the other connection is closed inside the callback
_close_tunnel_Synchronous(t, side) ==
    [t EXCEPT !.closed[Other(side)] = TRUE]

\* the close is scheduled when the other connection is closed already
_close_tunnel_WhenClosed(t, side) ==
    IF t.closed[Other(side)]
    THEN [t EXCEPT !.loop = Append(@, Other(side))]
    ELSE t

\* StreamTunnel._close_tunnel, lines 268-271, of the consumer of side
_close_tunnel(t, side) ==
    IF ~t.closed[Other(side)]
    THEN [t EXCEPT !.loop = Append(@, Other(side))]
    ELSE t

\* the connection_lost event of a connection, bound to _close_tunnel by
\* connection_made, lines 257-259
connection_lost(t, side) == _close_tunnel([t EXCEPT !.closed[side] = TRUE], side)

\* closing a closed connection fires its connection_lost event again, and
\* the close of the other connection is scheduled again
close_Refires(t, side) ==
    [connection_lost(t, side) EXCEPT !.loop = Append(@, Other(side))]

\* Connection.close: closing a connection fires its connection_lost event;
\* closing a closed connection does nothing
close(t, side) == IF t.closed[side] THEN t ELSE connection_lost(t, side)

\* the writes of the tunnel that raised so far
WriteFailures(t) ==
    Len(SelectSeq(t.writes["dostream"] \o t.writes["upstream"],
                  LAMBDA w : w.failed))

TunnelUnchanged ==
    UNCHANGED << environ, middleware, pc, input, request, kind, _started, _headers,
                 _done, queue, client, parser, response_headers, buffer, suspended,
                 nevents, consumer, yielded, trace >>

\* bytes arrive on an open connection of the tunnel
DataReceived ==
    /\ Established
    /\ Len(tunnel.received["dostream"]) + Len(tunnel.received["upstream"])
         < MaxTunnelData
    /\ \E side \in Sides, data \in TunnelBytes, fails \in BOOLEAN :
         /\ ~tunnel.closed[side]
         /\ fails => WriteFailures(tunnel) < MaxWriteFailures
         /\ tunnel' = data_received(tunnel, side, data, fails)
    /\ TunnelUnchanged

\* the peer of a connection closes it, or the connection fails
ConnectionLost ==
    /\ Established
    /\ \E side \in Sides :
         /\ ~tunnel.closed[side]
         /\ tunnel' = connection_lost([tunnel EXCEPT !.lost = @ \cup { side }], side)
    /\ TunnelUnchanged

\* the event loop runs the callback scheduled first with call_soon
RunCallback ==
    /\ Len(tunnel.loop) > 0
    /\ tunnel' = close([tunnel EXCEPT !.loop = Tail(@)], Head(tunnel.loop))
    /\ TunnelUnchanged

\* CONNECT requests with an authority to connect to, and no Expect header
TunnelEnvirons ==
    { e \in Environs : /\ EnvGet(e, "REQUEST_METHOD") = Some("CONNECT")
                       /\ EnvGet(e, "RAW_URI") = Some("u:443")
                       /\ ~EnvHas(e, "HTTP_EXPECT")
                       /\ EnvHas(e, "wsgi.input") }

TunnelInit == InitWith(TunnelEnvirons, { DefaultMiddleware })

\* the life of a CONNECT request and of its tunnel
TunnelNext ==
    \/ Call
    \/ CallResume
    \/ TunnelPreRequest
    \/ Error
    \/ Iter
    \/ DataReceived
    \/ ConnectionLost
    \/ RunCallback

TunnelSpec == TunnelInit /\ [][TunnelNext]_vars

\* the event loop runs every callback it was given
FairTunnelSpec == TunnelSpec /\ WF_vars(RunCallback)

\* ------------------------------------------- forward response, client lost
\* the downstream client goes away while a forward response is streamed;
\* ProxyResponse binds nothing to the downstream connection (lines 146-161)
DownstreamLost ==
    /\ pc = "returned"
    /\ kind = "ProxyResponse"
    /\ ~tunnel.closed["dostream"]
    /\ tunnel' = [tunnel EXCEPT !.closed["dostream"] = TRUE,
                                !.lost = @ \cup { "dostream" }]
    /\ TunnelUnchanged

\* requests to forward
ForwardEnvirons ==
    { e \in Environs : /\ EnvGet(e, "REQUEST_METHOD") = Some("GET")
                       /\ EnvGet(e, "RAW_URI") = Some("http://u/") }

ForwardInit == InitWith(ForwardEnvirons, { DefaultMiddleware })

\* the life of a forwarded request whose client may go away
ForwardNext ==
    \/ Call
    \/ CallResume
    \/ PreRequest
    \/ Error
    \/ DataProcessed
    \/ DataProcessedResume
    \/ Iter
    \/ DownstreamLost

ForwardSpec == ForwardInit /\ [][ForwardNext]_vars


\* ------------------------------------------------------------------ claims
StartResponses == OfOp(trace, "start_response")
Received == ChunksOf(trace, "recv_body")
Before(i, name) == \E j \in 1..(i - 1) : trace[j].op = name
ExpectsContinue == EnvGet(environ, "HTTP_EXPECT") = Some("100-continue")
InboundBody ==
    IF EnvHas(environ, "wsgi.input") THEN Val(EnvGet(environ, "wsgi.input")) ELSE ""
HopByHop ==
    { "connection", "keep-alive", "proxy-authenticate", "proxy-authorization",
      "te", "trailers", "transfer-encoding", "upgrade" }
InboundReads ==
    SelectSeq(trace, LAMBDA e : e.op = "read" /\ e.stream = "wsgi.input")
NoHopHeader(h) == \A i \in 1..Len(h) : Lower(h[i][1]) \notin HopByHop

\* C1: start_response is invoked at most once in every reachable state of a
\* request, and it has been invoked exactly once whenever the response is done.
C1_StartResponseOnce ==
    /\ Len(StartResponses) <= 1
    /\ _done => Len(StartResponses) = 1

\* a forward response completed over several data_processed events
C1_Witness ==
    /\ kind = "ProxyResponse"
    /\ _done
    /\ nevents >= 2
    /\ Len(StartResponses) = 1

\* C2: every chunk put on the queue is preceded, in program order, by the
\* invocation of start_response (forward, error and CONNECT paths alike).
C2_HeadersBeforeChunks ==
    \A i \in 1..Len(trace) :
        trace[i].op = "put" => Before(i, "start_response")

\* a forward response whose headers were flushed and a body chunk enqueued
C2_Witness ==
    /\ kind = "ProxyResponse"
    /\ HasOp(trace, "recv_body")
    /\ HasOp(trace, "put")

\* C3: once done is true, no step enqueues a further chunk.
C3_NoPutAfterDone ==
    [][_done => ChunksOf(trace', "put") = ChunksOf(trace, "put")]_vars

\* C4: on a forward response the chunks yielded downstream, followed by those
\* still queued, are exactly the chunks recv_body returned, in that order: the
\* yielded sequence is a prefix of the received one.
C4_InOrderDelivery ==
    (kind = "ProxyResponse" /\ _started) => yielded \o queue = Received

\* two different chunks yielded while a third one waits in the queue
C4_Witness ==
    /\ kind = "ProxyResponse"
    /\ _started
    /\ Len(yielded) >= 2
    /\ yielded[1] # yielded[2]
    /\ Len(queue) >= 1

\* C5: no header list passed to start_response holds a header whose
\* lower-cased name is hop-by-hop.
C5_NoHopHeadersDownstream ==
    \A i \in 1..Len(trace) :
        trace[i].op = "start_response" => NoHopHeader(trace[i].headers)

\* start_response called for an upstream response that carried hop-by-hop
\* headers in upper, mixed and lower case
C5_Witness ==
    /\ HasOp(trace, "start_response")
    /\ { "TE", "transfer-encoding" } \subseteq HeaderNames(response_headers)
    /\ ~IsNone(_headers)
    /\ "Tea" \in HeaderNames(Val(_headers))

\* C6: the headers handed to the upstream client hold no hop-by-hop header.
C6_NoHopHeadersUpstream ==
    ~IsNone(request) => NoHopHeader(Val(request).headers)

\* C7: a request whose raw target is empty or begins with '/' raises 404 as
\* the first and only thing the handler does: no body read, no headers built,
\* no response object, no upstream request.
C7_BadTarget404 ==
    ((RAW_URI = "" \/ SubSeq(RAW_URI, 1, 1) = "/") /\ pc # "start") =>
        /\ pc = "raised"
        /\ trace = << [op |-> "raise", status |-> 404] >>
        /\ input = InboundBody
        /\ IsNone(request)
        /\ kind = "none"
        /\ client = "idle"

\* a CONNECT with an origin-form target, rejected
C7_Witness ==
    /\ pc = "raised"
    /\ REQUEST_METHOD = "CONNECT"
    /\ RAW_URI = "/"
    /\ EnvHas(environ, "wsgi.input")

\* C8: start_response is never invoked with the interim status 100 Continue.
C8_No100Downstream ==
    \A i \in 1..Len(trace) :
        trace[i].op = "start_response" => trace[i].status # "100 Continue"

\* C9: for a request with Expect: 100-continue the inbound body is read at
\* most once, and only once a data_processed event has observed 100 Continue.
C9_BodyReadOnceAfter100 ==
    ExpectsContinue =>
        /\ Len(InboundReads) <= 1
        /\ Len(InboundReads) >= 1 => (nevents >= 1 /\ parser.status # "")

\* C10: the upstream request is started with body None and no read before it
\* when Expect: 100-continue is present, and otherwise with the whole inbound
\* body, read to completion before the request is started.
C10_BodyAtDispatch ==
    ~IsNone(request) =>
        LET k == CHOOSE i \in 1..Len(trace) : trace[i].op = "start_request"
        IN  IF ExpectsContinue
            THEN /\ IsNone(Val(request).data)
                 /\ ~Before(k, "read")
            ELSE /\ Val(request).data = Some(InboundBody)
                 /\ Before(k, "read")
                 /\ Before(k, "read_done")
                 /\ Len(OfOp(SubSeq(trace, 1, k), "read")) = 1

\* a request with another Expect value, dispatched with the body it carried
C10_Witness ==
    /\ ~IsNone(request)
    /\ EnvHas(environ, "HTTP_EXPECT")
    /\ ~ExpectsContinue
    /\ Val(request).data = Some("body")

\* the 504 of the error renderer among the calls of start_response
Has504 ==
    \E i \in 1..Len(StartResponses) :
        StartResponses[i].status = "504 Gateway Timeout"

\* C11: an upstream failure reported before the response headers were flushed
\* downstream (before pre_request, or after it but before the upstream headers
\* are complete) makes start_response be invoked with 504 and the response
\* become done.
C11_FailureBeforeHeaders504 ==
    [][(client # "failed" /\ client' = "failed"
        /\ ~HasOp(trace, "start_response"))
       => (LET after == OfOp(trace', "start_response")
           IN  /\ Len(after) = 1
               /\ after[1].status = "504 Gateway Timeout"
               /\ _done')]_vars

\* the upstream failed after the headers of a forward response were flushed,
\* and no call of data_processed was or is suspended
FailedAfterFlush ==
    /\ kind = "ProxyResponse"
    /\ client = "failed"
    /\ HasOp(trace, "start_response")
    /\ ~Has504
    /\ ~HasOp(trace, "write_upstream")
    /\ suspended = 0

\* C12: when the upstream fails after the response headers were flushed, the
\* downstream connection is closed: the response is not left open, not done,
\* with its consumer waiting for chunks that never come.
C12_ClosedAfterLateFailure ==
    FailedAfterFlush => (_done \/ tunnel.closed["dostream"])

\* the payloads of the error renderer, one for each outcome of the negotiation
ErrorPayloads ==
    { "<h1>Could not find " \o RAW_URI \o "</h1>",
      "Could not find " \o RAW_URI,
      "" }

\* C13: when the errback fires while started is false, start_response is
\* invoked exactly once, with 504, exactly one chunk (the rendered payload) is
\* enqueued and done is set, whatever the negotiated content type; the
\* consumer is never made to wait, yields that chunk and stops.
C13_ErrorRendersOnce ==
    (client = "failed" /\ ~_started) =>
        /\ Len(StartResponses) = 1
        /\ StartResponses[1].status = "504 Gateway Timeout"
        /\ _done
        /\ Len(ChunksOf(trace, "put")) = 1
        /\ ChunksOf(trace, "put")[1] \in ErrorPayloads
        /\ yielded \o queue = ChunksOf(trace, "put")
        /\ consumer = "stopped" => Len(queue) = 0

\* the consumer stopped after it yielded the text/plain payload of the error
C13_Witness ==
    /\ client = "failed"
    /\ ~_started
    /\ consumer = "stopped"
    /\ yielded = << "Could not find http://u/" >>

\* position in the trace of the one effect of that name
Pos(name) == CHOOSE i \in 1..Len(trace) : trace[i].op = name

TunnelWrites(side) ==
    SelectSeq(tunnel.writes[side], LAMBDA w : w.by = "tunnel")

\* C15: in an established tunnel, while the other side is open, every
\* data_received on one side makes exactly one write of the same bytes on the
\* transport of the other: what was written to a side is what the other
\* received, in the same order, nothing lost or repeated.
C15_BytePassthrough ==
    Established =>
        \A side \in Sides :
            ~tunnel.closed[Other(side)] =>
                /\ Len(TunnelWrites(Other(side))) = Len(tunnel.received[side])
                /\ \A i \in 1..Len(tunnel.received[side]) :
                      /\ TunnelWrites(Other(side))[i].data = tunnel.received[side][i]
                      /\ ~TunnelWrites(Other(side))[i].closed
                      /\ TunnelWrites(Other(side))[i].failed
                            => TunnelWrites(Other(side))[i].raised

\* both sides open, two different chunks went from downstream to upstream
C15_Witness ==
    /\ Established
    /\ ~tunnel.closed["dostream"]
    /\ ~tunnel.closed["upstream"]
    /\ tunnel.received["dostream"] = << "x", "y" >>
    /\ Len(TunnelWrites("upstream")) = 2
    /\ \A i \in 1..2 : ~TunnelWrites("upstream")[i].failed

\* C16: the two connections of a tunnel have equal lifetimes: when either is
\* lost the other is closed in the end, whichever side goes first and however
\* the events of the two sides interleave, as long as the event loop runs the
\* callbacks it was given.
C16_EqualLifetimes ==
    \A side \in Sides : (side \in tunnel.lost) ~> tunnel.closed[Other(side)]

\* downstream was lost while bytes came from upstream, and the scheduled
\* close closed upstream
C16_Witness ==
    /\ Established
    /\ tunnel.lost = { "dostream" }
    /\ tunnel.closed["upstream"]
    /\ Len(tunnel.loop) = 0
    /\ Len(tunnel.received["upstream"]) >= 1

\* C17: once a side of the tunnel is closed, no write is attempted on its
\* transport.
C17_NoWriteToClosedSide ==
    \A side \in Sides :
        \A i \in 1..Len(TunnelWrites(side)) : ~TunnelWrites(side)[i].closed

\* C18: no byte received from upstream is written on the downstream transport
\* before the '200 Connection established' response was written there.
C18_ResponseBeforeTunnelBytes ==
    \A i \in 1..Len(tunnel.writes["dostream"]) :
        tunnel.writes["dostream"][i].by = "tunnel" =>
            \E j \in 1..(i - 1) :
                /\ tunnel.writes["dostream"][j].by = "response"
                /\ tunnel.writes["dostream"][j].data = "200 Connection established"

\* values of the x-forwarded-for entries of a header list, in order
ForwardedFor(h) ==
    LET es == SelectSeq(h, LAMBDA e : Lower(e[1]) = "x-forwarded-for")
    IN  [i \in 1..Len(es) |-> es[i][2]]

\* values of the X-Forwarded-For headers the inbound request carried
InboundForwardedFor ==
    LET es == SelectSeq(environ, LAMBDA e : e[1] = "HTTP_X_FORWARDED_FOR")
    IN  [i \in 1..Len(es) |-> es[i][2]]

\* C19: with x_forwarded_for in the chain, the outbound headers hold exactly
\* one x-forwarded-for entry more than the inbound request carried, and its
\* value is the inbound REMOTE_ADDR.
C19_ForwardedForAdded ==
    (~IsNone(request) /\ \E i \in 1..Len(middleware) : middleware[i] = "x_forwarded_for")
        => ForwardedFor(Val(request).headers)
             = Append(InboundForwardedFor, Val(EnvGet(environ, "REMOTE_ADDR")))

\* a request that came with an X-Forwarded-For header of its own, through a
\* chain of two middlewares
C19_Witness ==
    /\ ~IsNone(request)
    /\ middleware = << "user_agent", "x_forwarded_for" >>
    /\ InboundForwardedFor = << "9.9.9.9" >>
    /\ ForwardedFor(Val(request).headers) = << "9.9.9.9", "10.0.0.1" >>

\* the headers of the inbound request, as the environ holds them: the HTTP_*
\* entries, then content-type and content-length when they are not empty
InboundHeaders ==
    LET http == SelectSeq(environ, LAMBDA e : StartsWith(e[1], "HTTP_"))
        more == SelectSeq(<< <<"content-type", EnvGet(environ, "CONTENT_TYPE")>>,
                             <<"content-length", EnvGet(environ, "CONTENT_LENGTH")>> >>,
                          LAMBDA e : e[2] # None /\ e[2] # Some(""))
    IN  [i \in 1..Len(http) |->
            <<Replace(SubSeq(http[i][1], 6, Len(http[i][1])), "_", "-"), http[i][2]>>]
        \o [i \in 1..Len(more) |-> <<more[i][1], Val(more[i][2])>>]

\* the middlewares called once each, the first registered first
RECURSIVE InRegistrationOrder(_, _)
InRegistrationOrder(ms, h) ==
    IF Len(ms) = 0 THEN h
    ELSE InRegistrationOrder(Tail(ms), CallMiddleware(Head(ms), environ, h))

\* C20: request_headers returns the inbound headers (every HTTP_* entry, plus
\* content-type and content-length when present) with each configured
\* middleware applied once, in registration order; with no middleware the
\* outbound headers are the inbound ones, nothing added, removed or replaced.
C20_MiddlewareInOrder ==
    ~IsNone(request) =>
        /\ Val(request).headers = InRegistrationOrder(middleware, InboundHeaders)
        /\ middleware = <<>> => Val(request).headers = InboundHeaders

\* a request without User-Agent through user_agent then x_forwarded_for: the
\* two entries are added in that order after the inbound ones
C20_Witness ==
    /\ ~IsNone(request)
    /\ middleware = << "user_agent", "x_forwarded_for" >>
    /\ ~EnvHas(environ, "HTTP_USER_AGENT")
    /\ EnvHas(environ, "CONTENT_TYPE")
    /\ LET h == Val(request).headers
       IN  /\ Len(h) = Len(InboundHeaders) + 2
           /\ h[Len(h) - 1] = << "user-agent", "Pulsar-proxy-server" >>
           /\ h[Len(h)][1] = "x-forwarded-for"

\* C21: when the errback fires after pre_request has run (started is true),
\* on a forward response or on an established tunnel, error() leaves the
\* pipeline as it was: no start_response, nothing enqueued, done unchanged.
C21_LateErrorChangesNothing ==
    [][(client # "failed" /\ client' = "failed" /\ _started)
       => /\ trace' = trace
          /\ queue' = queue
          /\ _done' = _done
          /\ _headers' = _headers
          /\ _started']_vars

\* the errback fired on an established tunnel: nothing but the 200 was given
\* to start_response
C21_Witness ==
    /\ kind = "ProxyTunnel"
    /\ client = "failed"
    /\ _started
    /\ Len(StartResponses) = 1
    /\ ~Has504

\* C22: in every reachable state the started flag is true if and only if
\* start_response has been invoked for the request.
C22_StartedIffStartResponse ==
    _started <=> HasOp(trace, "start_response")

\* effects of the phases that follow the start of the upstream request
LaterPhases ==
    { "set_started", "write_upstream", "recv_body", "start_response", "put",
      "set_done" }

\* C23: the steps of a request come in the order classify, build headers,
\* read body (or skip it), start upstream, 100-continue upload, stream
\* response, done: the outbound headers are built before the inbound body is
\* read, and the kind of response (CONNECT or forward) is decided before both.
C23_StepOrder ==
    pc = "returned" =>
        /\ Pos("response") < Pos("request_headers")
        /\ Pos("request_headers") < Pos("start_request")
        /\ \A i \in 1..Len(trace) :
              /\ (trace[i].op = "read" /\ i < Pos("start_request"))
                    => Pos("request_headers") < i
              /\ trace[i].op \in LaterPhases => Pos("start_request") < i

\* C24: the consumer stops exactly when done is true and the queue is empty:
\* it never stops while a chunk is queued or while done is false, it has
\* yielded every chunk enqueued by then, and a turn of the consumer that
\* finds the queue empty and done true is its last.
C24_ConsumerStopsWhenDoneAndEmpty ==
    [][/\ (consumer # "stopped" /\ consumer' = "stopped")
            => /\ _done
               /\ Len(queue) = 0
               /\ yielded = ChunksOf(trace, "put")
       /\ (consumer = "stopped" /\ consumer' = "stopped")
            => yielded' = yielded
       /\ ((consumer' # consumer \/ yielded' # yielded)
             /\ _done /\ Len(queue) = 0)
            => consumer' = "stopped"
       /\ (consumer' # consumer \/ yielded' # yielded)
            => consumer # "stopped"]_vars

\* the consumer of a forward response stopped after it yielded three chunks
C24_Witness ==
    /\ kind = "ProxyResponse"
    /\ consumer = "stopped"
    /\ _done
    /\ Len(yielded) >= 3
    /\ Len(queue) = 0

\* a capacity below the number of events the upstream may fire
QueueCapacity == MaxEvents - 1

\* C25: the chunk queue is bounded: its length never exceeds a fixed
\* capacity, the producer waits for the consumer when the queue is full.
C25_QueueBounded == Len(queue) <= QueueCapacity

\* the upstream headers without the hop-by-hop ones
EndToEnd(h) == SelectSeq(h, LAMBDA e : Lower(e[1]) \notin HopByHop)

\* C26: the first time the upstream headers are complete, start_response is
\* given the upstream status and the upstream headers less the hop-by-hop
\* ones (the others in their order, with their values, nothing added); the
\* recorded headers are never rebuilt afterwards.
C26_HeadersFlushedOnce ==
    [][/\ (IsNone(_headers) /\ ~IsNone(_headers'))
            => /\ parser'.headers_complete
               /\ Val(_headers') = EndToEnd(response_headers')
               /\ OfOp(trace', "start_response") =
                    << [op |-> "start_response", status |-> parser'.status,
                        headers |-> EndToEnd(response_headers')] >>
       /\ ~IsNone(_headers)
            => /\ _headers' = _headers
               /\ OfOp(trace', "start_response") = StartResponses]_vars

\* the headers of a response were flushed with two end-to-end headers kept in
\* their order, and further events followed
C26_Witness ==
    /\ _headers = Some(<< <<"Server", "s">>, <<"Tea", "t">> >>)
    /\ Len(StartResponses) = 1
    /\ StartResponses[1].status = "200 OK"
    /\ nevents >= 3
    /\ Len(Received) >= 2

\* C27: a failure of the write in StreamTunnel.data_received is passed over
\* if and only if the other side is closed already; a write that fails while
\* the other side is open raises in the caller.
C27_SwallowedIffClosed ==
    \A side \in Sides :
        \A i \in 1..Len(TunnelWrites(side)) :
            LET w == TunnelWrites(side)[i]
            IN  /\ w.failed => (w.raised <=> ~w.closed)
                /\ w.raised => w.failed

\* the write to upstream raised while upstream was open, and the exception
\* went to the caller
C27_Witness ==
    /\ Established
    /\ \E i \in 1..Len(TunnelWrites("upstream")) :
          LET w == TunnelWrites("upstream")[i]
          IN  w.failed /\ ~w.closed /\ w.raised

\* C28: a connection_lost on one side never closes the other side inside the
\* callback: the close of the other side is scheduled on the event loop and
\* happens in a later step, when that callback is the one the loop runs; and
\* nothing is scheduled when the other side is closed already.
C28_CloseIsScheduled ==
    [][\A side \in Sides :
        /\ (side \in tunnel'.lost /\ side \notin tunnel.lost)
             => /\ tunnel'.closed[Other(side)] = tunnel.closed[Other(side)]
                /\ tunnel'.loop = IF tunnel.closed[Other(side)]
                                  THEN tunnel.loop
                                  ELSE Append(tunnel.loop, Other(side))
        /\ (tunnel'.closed[side] /\ ~tunnel.closed[side])
             => \/ side \in tunnel'.lost
                \/ /\ Len(tunnel.loop) > 0
                   /\ Head(tunnel.loop) = side
                   /\ tunnel'.closed[Other(side)] = tunnel.closed[Other(side)]]_vars

\* upstream was lost, and the close of downstream is waiting on the loop
C28_Witness ==
    /\ Established
    /\ tunnel.lost = { "upstream" }
    /\ tunnel.loop = << "dostream" >>
    /\ ~tunnel.closed["dostream"]

\* C29: closing is monotonic and idempotent in a tunnel: however the
\* connection_lost events of the two sides and the scheduled closes
\* interleave, a closed connection stays closed, and a scheduled close that
\* runs on a closed connection changes nothing.
C29_CloseOnceAndForAll ==
    [][/\ \A side \in Sides : tunnel.closed[side] => tunnel'.closed[side]
       /\ (Len(tunnel.loop) > 0 /\ tunnel.closed[Head(tunnel.loop)]
           /\ tunnel'.loop # tunnel.loop /\ tunnel'.lost = tunnel.lost
           /\ tunnel'.received = tunnel.received)
            => tunnel' = [tunnel EXCEPT !.loop = Tail(@)]]_vars

\* both sides were lost before the scheduled close of the second ran, and it
\* ran since
C29_Witness ==
    /\ Established
    /\ tunnel.lost = Sides
    /\ Len(tunnel.loop) = 0

\* C30: when the downstream connection closes while a forward response is
\* streamed, the upstream processing of the request is cancelled: no chunk
\* from upstream is enqueued after the close.
C30_NoPutAfterClientLost ==
    [][(kind = "ProxyResponse" /\ tunnel.closed["dostream"])
       => ChunksOf(trace', "put") = ChunksOf(trace, "put")]_vars

\* C31: for a request without Expect: 100-continue, the inbound body stream
\* is read exactly once over the life of the request, before dispatch, and
\* the proxy writes nothing to the upstream transport afterwards, also when
\* the upstream answers with an interim 100 Continue.
C31_BodyReadOnceWithoutExpect ==
    (~ExpectsContinue /\ pc = "returned") =>
        /\ EnvHas(environ, "wsgi.input") => Len(InboundReads) = 1
        /\ \A i \in 1..Len(trace) :
              trace[i].op = "read" => i < Pos("start_request")
        /\ ~HasOp(trace, "write_upstream")

====
